---- MODULE Spec2Model ----
(***************************************************************************)
(* Verbalize: speech -> transcript -> prompt -> generated code.            *)
(*                                                                         *)
(*   functions/index.js   the processVoice HTTP handler, createCodePrompt  *)
(*                        and cleanGeneratedCode                           *)
(*   App component        the React client: recording, processAudio        *)
(*                                                                         *)
(* JavaScript strings that the code inspects character by character are    *)
(* sequences of one-character strings; texts the code only copies are      *)
(* TLA+ strings.                                                           *)
(***************************************************************************)
EXTENDS Integers, Sequences, FiniteSets, TLC

VARIABLES
    \* cleanGeneratedCode applied to a model output, and again to its result
    sanPc, code, cleaned, recleaned,
    \* createCodePrompt applied to a (transcript, language) pair
    promptPc, transcript, language, codePrompt,
    \* the processVoice function: one entry per HTTP request
    runs, arrived, consoleErrors,
    \* the App component
    isRecording, isProcessing, shownTranscript, generatedCode,
    mediaRecorderRef, audioChunksRef, recorders, pendingMedia, audioRuns

sanVars    == <<sanPc, code, cleaned, recleaned>>
promptVars == <<promptPc, transcript, language, codePrompt>>
serverVars == <<runs, arrived, consoleErrors>>
clientVars == <<isRecording, isProcessing, shownTranscript, generatedCode,
                mediaRecorderRef, audioChunksRef, recorders, pendingMedia,
                audioRuns>>
vars       == <<sanVars, promptVars, serverVars, clientVars>>

(***************************************************************************)
(* Bounds                                                                  *)
(***************************************************************************)
\* number of pieces a modelled model output is assembled from
MaxPieces == 3
\* number of HTTP requests the function receives
MaxRuns == 2
\* number of MediaRecorder objects the client creates
MaxRecorders == 2
\* number of getUserMedia promises pending at once
MaxPendingMedia == 2

(***************************************************************************)
(* Characters and JavaScript string primitives                             *)
(***************************************************************************)
UpperCase == <<"A", "B", "C", "D", "E", "F", "G", "H", "I", "J", "K", "L", "M",
               "N", "O", "P", "Q", "R", "S", "T", "U", "V", "W", "X", "Y", "Z">>
LowerCase == <<"a", "b", "c", "d", "e", "f", "g", "h", "i", "j", "k", "l", "m",
               "n", "o", "p", "q", "r", "s", "t", "u", "v", "w", "x", "y", "z">>
Digits    == <<"0", "1", "2", "3", "4", "5", "6", "7", "8", "9">>

Range(s) == {s[i] : i \in 1..Len(s)}

\* the regular expression class \w
WordChars == Range(UpperCase) \cup Range(LowerCase) \cup Range(Digits) \cup {"_"}

\* the characters String.prototype.trim removes (those of the modelled alphabet)
WhiteSpace == {" ", "\t", "\n", "\r"}

\* String.prototype.toLowerCase, one character
ToLowerChar(c) ==
    IF \E i \in 1..Len(UpperCase) : UpperCase[i] = c
    THEN LowerCase[CHOOSE i \in 1..Len(UpperCase) : UpperCase[i] = c]
    ELSE c

toLowerCase(s) == [i \in 1..Len(s) |-> ToLowerChar(s[i])]

\* String.prototype.startsWith
startsWith(s, p) == Len(p) <= Len(s) /\ SubSeq(s, 1, Len(p)) = p

\* String.prototype.substring(from), from counted from 0
substring(s, from) == SubSeq(s, from + 1, Len(s))

RECURSIVE TrimStart(_)
TrimStart(s) ==
    IF s # <<>> /\ Head(s) \in WhiteSpace THEN TrimStart(Tail(s)) ELSE s

RECURSIVE TrimEnd(_)
TrimEnd(s) ==
    IF s # <<>> /\ s[Len(s)] \in WhiteSpace
    THEN TrimEnd(SubSeq(s, 1, Len(s) - 1)) ELSE s

\* a trim that leaves the trailing white space
TrimStartOnly(s) == TrimStart(s)

\* String.prototype.trim
trim(s) == TrimEnd(TrimStart(s))

(***************************************************************************)
(* cleanGeneratedCode                                                      *)
(***************************************************************************)
\* the backtick character (a TLA+ string cannot hold one)
Backtick == "BACKTICK"
Fence    == <<Backtick, Backtick, Backtick>>

FenceAt(s, i) ==
    i + 2 <= Len(s) /\ s[i] = Backtick /\ s[i + 1] = Backtick /\ s[i + 2] = Backtick

\* [\w]* is greedy: the first position at or after j that holds no word character
RECURSIVE WordRunEnd(_, _)
WordRunEnd(s, j) ==
    IF j <= Len(s) /\ s[j] \in WordChars THEN WordRunEnd(s, j + 1) ELSE j

\* \n? takes one newline when there is one
OptNewlineEnd(s, j) == IF j <= Len(s) /\ s[j] = "\n" THEN j + 1 ELSE j

\* the position after a match of ```[\w]*\n? that starts at i
MatchEnd(s, i) == OptNewlineEnd(s, WordRunEnd(s, i + 3))

\* the same for the pattern ```\n? , which leaves the language tag behind
MatchEndNoTag(s, i) == OptNewlineEnd(s, i + 3)

RECURSIVE ReplaceFromNoTag(_, _)
ReplaceFromNoTag(s, i) ==
    IF i > Len(s) THEN <<>>
    ELSE IF FenceAt(s, i) THEN ReplaceFromNoTag(s, MatchEndNoTag(s, i))
    ELSE <<s[i]>> \o ReplaceFromNoTag(s, i + 1)

\* code.replace(/```[\w]*\n?/g, ''): matches are found left to right, each
\* search resuming where the previous match ended
RECURSIVE ReplaceFrom(_, _)
ReplaceFrom(s, i) ==
    IF i > Len(s) THEN <<>>
    ELSE IF FenceAt(s, i) THEN ReplaceFrom(s, MatchEnd(s, i))
    ELSE <<s[i]>> \o ReplaceFrom(s, i + 1)

RemoveCodeBlocksNoTag(s) == ReplaceFromNoTag(s, 1)

\* the replace without the g flag: only the first match goes
RECURSIVE FirstFence(_, _)
FirstFence(s, i) ==
    IF i > Len(s) THEN 0 ELSE IF FenceAt(s, i) THEN i ELSE FirstFence(s, i + 1)

RemoveCodeBlocksFirstOnly(s) ==
    LET i == FirstFence(s, 1) IN
    IF i = 0 THEN s
    ELSE SubSeq(s, 1, i - 1) \o SubSeq(s, MatchEnd(s, i), Len(s))

RemoveCodeBlocks(s) == ReplaceFrom(s, 1)

unwantedPrefixes == <<
    <<"H", "e", "r", "e", "'", "s", " ", "t", "h", "e", " ", "c", "o", "d", "e", ":">>,
    <<"H", "e", "r", "e", " ", "i", "s", " ", "t", "h", "e", " ", "c", "o", "d", "e", ":">>,
    <<"T", "h", "e", " ", "c", "o", "d", "e", " ", "i", "s", ":">>,
    <<"H", "e", "r", "e", "'", "s", " ", "y", "o", "u", "r", " ", "c", "o", "d", "e", ":">>,
    <<"H", "e", "r", "e", " ", "i", "s", " ", "y", "o", "u", "r", " ", "c", "o", "d", "e", ":">> >>

\* a test that compares without folding the case
PrefixMatchesCaseSensitive(s, prefix) == startsWith(s, prefix)

\* the test of the loop body
PrefixMatches(s, prefix) == startsWith(toLowerCase(s), toLowerCase(prefix))

\* the loop without its break: later prefixes are tried on the shortened text
RECURSIVE StripPrefixFromNoBreak(_, _)
StripPrefixFromNoBreak(s, k) ==
    IF k > Len(unwantedPrefixes) THEN s
    ELSE IF PrefixMatches(s, unwantedPrefixes[k])
         THEN StripPrefixFromNoBreak(trim(substring(s, Len(unwantedPrefixes[k]))), k + 1)
         ELSE StripPrefixFromNoBreak(s, k + 1)

\* for (const prefix of unwantedPrefixes) { if (...) { cleaned = ...; break; } }
RECURSIVE StripPrefixFrom(_, _)
StripPrefixFrom(s, k) ==
    IF k > Len(unwantedPrefixes) THEN s
    ELSE IF PrefixMatches(s, unwantedPrefixes[k])
         THEN trim(substring(s, Len(unwantedPrefixes[k])))
         ELSE StripPrefixFrom(s, k + 1)

StripPrefix(s) == StripPrefixFrom(s, 1)

cleanGeneratedCode(s) == StripPrefix(trim(RemoveCodeBlocks(s)))

\* what the claims speak about
HasFence(s) == \E i \in 1..Len(s) : FenceAt(s, i)

\* s begins, in any letter case, with the k-th known preface phrase
BeginsWithPhrase(s, k) ==
    /\ Len(unwantedPrefixes[k]) <= Len(s)
    /\ \A i \in 1..Len(unwantedPrefixes[k]) :
          ToLowerChar(s[i]) = ToLowerChar(unwantedPrefixes[k][i])

StartsWithPreface(s) == \E k \in 1..Len(unwantedPrefixes) : BeginsWithPhrase(s, k)

(***************************************************************************)
(* createCodePrompt                                                        *)
(***************************************************************************)
\* JavaScript values of the request's language field
Undefined == [type |-> "undefined", val |-> ""]
Str(v)    == [type |-> "string", val |-> v]

\* String(v), as property access and template literals convert
StringOf(v) == IF v.type = "undefined" THEN "undefined" ELSE v.val

\* the own properties of the languageInstructions object literal
languageInstructions == [
    javascript |-> "Generate clean, modern JavaScript code. Use ES6+ features when appropriate.",
    python     |-> "Generate clean Python code following PEP 8 standards. Use type hints when helpful.",
    java       |-> "Generate clean Java code with proper class structure and naming conventions.",
    cpp        |-> "Generate clean C++ code with proper headers and modern C++ features.",
    html       |-> "Generate semantic HTML5 code with proper structure and accessibility.",
    css        |-> "Generate modern CSS with flexbox/grid and responsive design principles." ]

GenericInstruction == "Generate clean, well-structured code."

\* what a template literal prints for the members an object literal inherits
\* from Object.prototype (those named by the modelled requests)
ObjectPrototype == [
    constructor    |-> "function Object() { [native code] }",
    toString       |-> "function toString() { [native code] }",
    valueOf        |-> "function valueOf() { [native code] }",
    hasOwnProperty |-> "function hasOwnProperty() { [native code] }",
    __proto__      |-> "[object Object]" ]

\* a lookup that sees the own properties only
OwnInstruction(lang) ==
    IF StringOf(lang) \in DOMAIN languageInstructions
    THEN languageInstructions[StringOf(lang)]
    ELSE GenericInstruction

\* languageInstructions[language] || 'Generate clean, well-structured code.'
\* a property read walks the prototype chain; every inherited member is truthy
StyleInstruction(lang) ==
    IF StringOf(lang) \in DOMAIN languageInstructions
    THEN languageInstructions[StringOf(lang)]
    ELSE IF StringOf(lang) \in DOMAIN ObjectPrototype
         THEN ObjectPrototype[StringOf(lang)]
         ELSE GenericInstruction

\* a template that lists the production-ready item before the comments item
createCodePromptReordered(t, lang) == <<
    "You are a code generation assistant. Convert the following natural language request into ",
    StringOf(lang),
    " code.\n\nRequest: \"",
    t,
    "\"\n\nRequirements:\n- ",
    StyleInstruction(lang),
    "\n- Make the code production-ready",
    "\n- Include helpful comments",
    "\n- If the request is unclear, make reasonable assumptions",
    "\n- Only return the code, no explanations or markdown formatting",
    "\n\nGenerate the ",
    StringOf(lang),
    " code:" >>

\* the template literal, cut at its interpolations and at the requirement lines
createCodePrompt(t, lang) == <<
    "You are a code generation assistant. Convert the following natural language request into ",
    StringOf(lang),
    " code.\n\nRequest: \"",
    t,
    "\"\n\nRequirements:\n- ",
    StyleInstruction(lang),
    "\n- Include helpful comments",
    "\n- Make the code production-ready",
    "\n- If the request is unclear, make reasonable assumptions",
    "\n- Only return the code, no explanations or markdown formatting",
    "\n\nGenerate the ",
    StringOf(lang),
    " code:" >>

\* the requirement line that carries the style directive
DirectiveOf(prompt) == prompt[6]

(***************************************************************************)
(* processVoice: the HTTP function                                         *)
(***************************************************************************)
RunIds == 1..MaxRuns

\* the requests the function is sent; the framework's body parser always
\* leaves an object in req.body, its audio and language fields may be absent
Methods        == {"OPTIONS", "GET", "POST"}
AudioValues    == {Undefined, Str(""), Str("QUJD")}
LanguageValues == {Undefined, Str("python")}

\* what recognize() resolves with: response.results, each result given as the
\* list of its alternatives' transcripts
Hi    == <<"h", "i">>
Yo    == <<"y", "o">>
Blank == <<" ">>
SpeechResponses == {
    <<>>,
    << <<>> >>,
    << <<Blank, Hi>> >>,
    << <<Hi, Yo>> >>,
    << <<Hi>>, <<Yo, Hi>> >> }

\* what generateContent() resolves with: the texts of response.candidates
FencedText  == Fence \o <<"j", "s", "\n", "x", "\n">> \o Fence
PrefaceText == unwantedPrefixes[3] \o <<" ", "x">>
GenResponses == { <<>>, <<FencedText>>, <<PrefaceText, <<"x">> >> }

\* the errors the two services reject with
ServiceErrors == {"DEADLINE_EXCEEDED", "PERMISSION_DENIED"}

Unsettled     == [state |-> "pending",  value |-> <<>>, error |-> ""]
Resolved(v)   == [state |-> "resolved", value |-> v,    error |-> ""]
Rejected(e)   == [state |-> "rejected", value |-> <<>>, error |-> e]

NoRequest == [method |-> "", audio |-> Undefined, language |-> Undefined]

NoRun == [pc |-> "none", req |-> NoRequest,
          speechCalls |-> 0, genCalls |-> 0,
          speech |-> Unsettled, gen |-> Unsettled,
          transcription |-> <<>>, codePrompt |-> <<>>,
          responses |-> <<>>]

\* res.status(s).send(text) and res.status(s).json(body)
TextResponse(s, text) == [status |-> s, kind |-> "text", text |-> text]
JsonResponse(s, body) == [status |-> s, kind |-> "json", body |-> body]

NoAudioMessage  == "No audio data provided"
NoSpeechMessage == "No speech detected. Please try speaking more clearly."
GenericMessage  == "Failed to process voice input. Please try again."

Failure(msg) == [success |-> FALSE, error |-> msg]

\* a catch block that hands the error's message to the client
CatchResponseLeaking(error) == JsonResponse(500, Failure(error))

\* the response of the catch block
CatchResponse(error) == JsonResponse(500, Failure(GenericMessage))

\* an audio test that lets the empty string through
IsFalsyUndefinedOnly(v) == v.type = "undefined"

\* !audio
IsFalsy(v) == v.type = "undefined" \/ v.val = ""

\* a blank test without the trim
IsBlankNoTrim(t) == t = <<>>

\* !transcription.trim()
IsBlank(t) == trim(t) = <<>>

\* Array.prototype.join('\n')
RECURSIVE JoinLines(_)
JoinLines(parts) ==
    IF parts = <<>> THEN <<>>
    ELSE IF Len(parts) = 1 THEN parts[1]
    ELSE parts[1] \o <<"\n">> \o JoinLines(Tail(parts))

\* result.alternatives[0].transcript throws a TypeError when a result has no
\* alternative
MapThrows(results) == \E i \in 1..Len(results) : results[i] = <<>>

\* response.results.map(result => result.alternatives[0].transcript).join('\n')
Transcription(results) == JoinLines([i \in 1..Len(results) |-> results[i][1]])

\* a handler that falls through after answering and answers again
SendTwice(run, resp) ==
    [run EXCEPT !.pc = "done", !.responses = Append(Append(@, resp), resp)]

\* res.status(...).send(...) or res.json(...), followed by the return or the
\* end of the handler
Send(run, resp) == [run EXCEPT !.pc = "done", !.responses = Append(@, resp)]

\* a handler that sends the recognize request twice
CallRecognizeTwice(run) ==
    [run EXCEPT !.pc = "awaitSpeech", !.speechCalls = @ + 2]

\* await speechClient.recognize(request): the request leaves, the handler waits
CallRecognize(run) ==
    [run EXCEPT !.pc = "awaitSpeech", !.speechCalls = @ + 1]

\* await model.generateContent({... text: codePrompt ...})
CallGenerate(run, t) ==
    [run EXCEPT !.pc = "awaitGen", !.genCalls = @ + 1,
                !.transcription = t,
                !.codePrompt = createCodePrompt(t, run.req.language)]

\* console.error('Error processing voice:', error)
LogError(r, error) == consoleErrors' = consoleErrors \cup {[run |-> r, error |-> error]}

\* the handler from its first line to its first await or return
Receive(method, audio, lang) ==
    /\ arrived < MaxRuns
    /\ arrived' = arrived + 1
    /\ LET r   == arrived + 1
           run == [NoRun EXCEPT !.req = [method |-> method, audio |-> audio,
                                         language |-> lang]]
       IN runs' = [runs EXCEPT ![r] =
            IF method = "OPTIONS" THEN Send(run, TextResponse(204, ""))
            ELSE IF method # "POST"
                 THEN Send(run, TextResponse(405, "Method Not Allowed"))
            ELSE IF IsFalsy(audio)
                 THEN Send(run, JsonResponse(400, Failure(NoAudioMessage)))
            ELSE CallRecognize(run)]
    /\ UNCHANGED <<consoleErrors, sanVars, promptVars, clientVars>>

\* the speech service answers
SpeechResolves(r, results) ==
    /\ runs[r].pc = "awaitSpeech"
    /\ runs' = [runs EXCEPT ![r].pc = "speechSettled",
                            ![r].speech = Resolved(results)]
    /\ UNCHANGED <<arrived, consoleErrors, sanVars, promptVars, clientVars>>

\* the speech service fails
SpeechRejects(r, error) ==
    /\ runs[r].pc = "awaitSpeech"
    /\ runs' = [runs EXCEPT ![r].pc = "speechSettled",
                            ![r].speech = Rejected(error)]
    /\ UNCHANGED <<arrived, consoleErrors, sanVars, promptVars, clientVars>>

\* the handler resumes after await speechClient.recognize, up to the next
\* await or return
AfterRecognize(r) ==
    /\ runs[r].pc = "speechSettled"
    /\ LET run == runs[r] IN
       IF run.speech.state = "rejected"
       THEN /\ runs' = [runs EXCEPT ![r] = Send(run, CatchResponse(run.speech.error))]
            /\ LogError(r, run.speech.error)
       ELSE IF MapThrows(run.speech.value)
       THEN /\ runs' = [runs EXCEPT ![r] = Send(run, CatchResponse("TypeError"))]
            /\ LogError(r, "TypeError")
       ELSE LET t == Transcription(run.speech.value) IN
            /\ runs' = [runs EXCEPT ![r] =
                 IF IsBlank(t)
                 THEN Send([run EXCEPT !.transcription = t],
                           JsonResponse(400, Failure(NoSpeechMessage)))
                 ELSE CallGenerate(run, t)]
            /\ UNCHANGED consoleErrors
    /\ UNCHANGED <<arrived, sanVars, promptVars, clientVars>>

\* the code-generation service answers
GenResolves(r, candidates) ==
    /\ runs[r].pc = "awaitGen"
    /\ runs' = [runs EXCEPT ![r].pc = "genSettled",
                            ![r].gen = Resolved(candidates)]
    /\ UNCHANGED <<arrived, consoleErrors, sanVars, promptVars, clientVars>>

\* the code-generation service fails
GenRejects(r, error) ==
    /\ runs[r].pc = "awaitGen"
    /\ runs' = [runs EXCEPT ![r].pc = "genSettled",
                            ![r].gen = Rejected(error)]
    /\ UNCHANGED <<arrived, consoleErrors, sanVars, promptVars, clientVars>>

\* a success body that carries the generated text as it came
SuccessBodyRaw(run, generated) ==
    [success |-> TRUE, transcript |-> run.transcription,
     code |-> generated, language |-> run.req.language]

\* res.json({ success: true, transcript, code, language })
SuccessBody(run, generated) ==
    [success |-> TRUE, transcript |-> run.transcription,
     code |-> cleanGeneratedCode(generated), language |-> run.req.language]

\* the handler resumes after await model.generateContent, up to its end;
\* result.response.candidates[0].content throws when there is no candidate
AfterGenerate(r) ==
    /\ runs[r].pc = "genSettled"
    /\ LET run == runs[r] IN
       IF run.gen.state = "rejected"
       THEN /\ runs' = [runs EXCEPT ![r] = Send(run, CatchResponse(run.gen.error))]
            /\ LogError(r, run.gen.error)
       ELSE IF run.gen.value = <<>>
       THEN /\ runs' = [runs EXCEPT ![r] = Send(run, CatchResponse("TypeError"))]
            /\ LogError(r, "TypeError")
       ELSE /\ runs' = [runs EXCEPT ![r] =
                 Send(run, JsonResponse(200, SuccessBody(run, run.gen.value[1])))]
            /\ UNCHANGED consoleErrors
    /\ UNCHANGED <<arrived, sanVars, promptVars, clientVars>>

ServerInit ==
    /\ runs = [r \in RunIds |-> NoRun]
    /\ arrived = 0
    /\ consoleErrors = {}

(***************************************************************************)
(* App: the React client                                                   *)
(***************************************************************************)
RecorderIds == 1..MaxRecorders

\* what response.json() yields
ResultBodies == {
    [success |-> TRUE,  transcript |-> "t1", code |-> "c1"],
    [success |-> TRUE,  transcript |-> "t2", code |-> "c2"],
    [success |-> FALSE, error |-> NoSpeechMessage] }

\* the local result of processAudio before response.json() has yielded
NoResult == [success |-> FALSE, error |-> ""]

NoAudioRun == [pc |-> "none", blob |-> <<>>, result |-> NoResult]

\* the MediaRecorder objects created so far
Created == {id \in RecorderIds : recorders[id] # "unused"}

\* a processAudio call that has not reached its finally block
InFlight(id) == audioRuns[id].pc \in {"toBase64", "fetch", "stuck"}

ClientInit ==
    /\ isRecording = FALSE
    /\ isProcessing = FALSE
    /\ shownTranscript = ""
    /\ generatedCode = ""
    /\ mediaRecorderRef = 0
    /\ audioChunksRef = <<>>
    /\ recorders = [id \in RecorderIds |-> "unused"]
    /\ pendingMedia = 0
    /\ audioRuns = [id \in RecorderIds |-> NoAudioRun]

\* the record button while it reads 'Start Recording': startRecording up to
\* await navigator.mediaDevices.getUserMedia
ClickStart ==
    /\ ~isProcessing
    /\ ~isRecording
    /\ pendingMedia < MaxPendingMedia
    /\ pendingMedia' = pendingMedia + 1
    /\ UNCHANGED <<isRecording, isProcessing, shownTranscript, generatedCode,
                   mediaRecorderRef, audioChunksRef, recorders, audioRuns>>
    /\ UNCHANGED <<sanVars, promptVars, serverVars>>

\* getUserMedia resolves: the rest of startRecording
MediaGranted ==
    /\ pendingMedia > 0
    /\ Cardinality(Created) < MaxRecorders
    /\ LET id == Cardinality(Created) + 1 IN
       /\ audioChunksRef' = <<>>
       /\ mediaRecorderRef' = id
       /\ recorders' = [recorders EXCEPT ![id] = "recording"]
    /\ isRecording' = TRUE
    /\ pendingMedia' = pendingMedia - 1
    /\ UNCHANGED <<isProcessing, shownTranscript, generatedCode, audioRuns>>
    /\ UNCHANGED <<sanVars, promptVars, serverVars>>

\* getUserMedia rejects: the catch block of startRecording
MediaDenied ==
    /\ pendingMedia > 0
    /\ pendingMedia' = pendingMedia - 1
    /\ UNCHANGED <<isRecording, isProcessing, shownTranscript, generatedCode,
                   mediaRecorderRef, audioChunksRef, recorders, audioRuns>>
    /\ UNCHANGED <<sanVars, promptVars, serverVars>>

\* the record button while it reads 'Stop Recording': stopRecording;
\* MediaRecorder.stop() throws on a recorder that is not recording
ClickStop ==
    /\ ~isProcessing
    /\ isRecording
    /\ IF mediaRecorderRef # 0 /\ recorders[mediaRecorderRef] = "recording"
       THEN /\ recorders' = [recorders EXCEPT ![mediaRecorderRef] = "stopping"]
            /\ isRecording' = FALSE
       ELSE UNCHANGED <<recorders, isRecording>>
    /\ UNCHANGED <<isProcessing, shownTranscript, generatedCode,
                   mediaRecorderRef, audioChunksRef, pendingMedia, audioRuns>>
    /\ UNCHANGED <<sanVars, promptVars, serverVars>>

\* the task a stopped recorder queues: ondataavailable, then onstop, which
\* runs processAudio up to await blobToBase64(audioBlob)
OnStop(id) ==
    /\ recorders[id] = "stopping"
    /\ recorders' = [recorders EXCEPT ![id] = "inactive"]
    /\ audioChunksRef' = Append(audioChunksRef, id)
    /\ isProcessing' = TRUE
    /\ audioRuns' = [audioRuns EXCEPT ![id] =
            [pc |-> "toBase64", blob |-> Append(audioChunksRef, id),
             result |-> NoResult]]
    /\ UNCHANGED <<isRecording, shownTranscript, generatedCode,
                   mediaRecorderRef, pendingMedia>>
    /\ UNCHANGED <<sanVars, promptVars, serverVars>>

\* reader.onloadend with a result: the promise resolves and processAudio
\* goes on to await fetch(...)
Base64Done(id) ==
    /\ audioRuns[id].pc = "toBase64"
    /\ audioRuns' = [audioRuns EXCEPT ![id].pc = "fetch"]
    /\ UNCHANGED <<isRecording, isProcessing, shownTranscript, generatedCode,
                   mediaRecorderRef, audioChunksRef, recorders, pendingMedia>>
    /\ UNCHANGED <<sanVars, promptVars, serverVars>>

\* reader.onloadend after a read error: reader.result is null, the callback
\* throws before resolve and the promise stays pending
Base64Fails(id) ==
    /\ audioRuns[id].pc = "toBase64"
    /\ audioRuns' = [audioRuns EXCEPT ![id].pc = "stuck"]
    /\ UNCHANGED <<isRecording, isProcessing, shownTranscript, generatedCode,
                   mediaRecorderRef, audioChunksRef, recorders, pendingMedia>>
    /\ UNCHANGED <<sanVars, promptVars, serverVars>>

\* a processAudio that clears the shown results when the body reports a failure
FetchResolvesClearing(id, result) ==
    /\ audioRuns[id].pc = "fetch"
    /\ IF result.success
       THEN /\ shownTranscript' = result.transcript
            /\ generatedCode' = result.code
       ELSE /\ shownTranscript' = ""
            /\ generatedCode' = ""
    /\ isProcessing' = FALSE
    /\ audioRuns' = [audioRuns EXCEPT ![id].pc = "done", ![id].result = result]
    /\ UNCHANGED <<isRecording, mediaRecorderRef, audioChunksRef, recorders,
                   pendingMedia>>
    /\ UNCHANGED <<sanVars, promptVars, serverVars>>

\* fetch resolves and response.json() yields a body: the rest of processAudio
FetchResolves(id, result) ==
    /\ audioRuns[id].pc = "fetch"
    /\ IF result.success
       THEN /\ shownTranscript' = result.transcript
            /\ generatedCode' = result.code
       ELSE UNCHANGED <<shownTranscript, generatedCode>>
    /\ isProcessing' = FALSE
    /\ audioRuns' = [audioRuns EXCEPT ![id].pc = "done", ![id].result = result]
    /\ UNCHANGED <<isRecording, mediaRecorderRef, audioChunksRef, recorders,
                   pendingMedia>>
    /\ UNCHANGED <<sanVars, promptVars, serverVars>>

\* fetch or response.json() rejects: the catch and finally blocks
FetchRejects(id) ==
    /\ audioRuns[id].pc = "fetch"
    /\ isProcessing' = FALSE
    /\ audioRuns' = [audioRuns EXCEPT ![id].pc = "done"]
    /\ UNCHANGED <<isRecording, shownTranscript, generatedCode,
                   mediaRecorderRef, audioChunksRef, recorders, pendingMedia>>
    /\ UNCHANGED <<sanVars, promptVars, serverVars>>

(***************************************************************************)
(* Inputs of the two pure functions                                        *)
(***************************************************************************)
Tags == { <<"j", "s">>, <<"p", "y", "3">> }

OpenFence(tag) == Fence \o tag \o <<"\n">>
CloseFence     == <<"\n">> \o Fence

Pieces == { <<Backtick>>, Fence, <<"j", "s">>, <<"\n">>, <<" ">>, <<"x">>,
            unwantedPrefixes[1],
            <<"H", "E", "R", "E", " ", "I", "S", " ", "T", "H", "E", " ", "C", "O", "D", "E", ":">>,
            CloseFence }
          \cup {OpenFence(tag) : tag \in Tags}

\* the strings made of at most n pieces
RECURSIVE PieceStrings(_)
PieceStrings(n) ==
    IF n = 0 THEN {<<>>}
    ELSE LET S == PieceStrings(n - 1) IN S \cup {p \o s : p \in Pieces, s \in S}

ModelOutputs == PieceStrings(MaxPieces)

\* the texts a fenced block of the modelled outputs can enclose
FencedBodies == PieceStrings(MaxPieces - 2)

PromptTranscripts == { <<>>, Hi, Yo, Hi \o <<"\n">> \o Yo, <<"\"", "x", "\"">> }

PromptLanguages ==
    {Str(l) : l \in DOMAIN languageInstructions}
    \cup {Str(l) : l \in DOMAIN ObjectPrototype}
    \cup {Str("rust"), Str(""), Undefined}

SanitizerIdle == sanPc = "off" /\ code = <<>> /\ cleaned = <<>> /\ recleaned = <<>>
PromptIdle    == promptPc = "off" /\ transcript = <<>> /\ language = Undefined
                 /\ codePrompt = <<>>

(***************************************************************************)
(* cleanGeneratedCode on every modelled output, then on its own result     *)
(***************************************************************************)
CleanInit ==
    /\ sanPc = "input"
    /\ code \in ModelOutputs
    /\ cleaned = <<>>
    /\ recleaned = <<>>
    /\ PromptIdle /\ ServerInit /\ ClientInit

Clean ==
    /\ sanPc = "input"
    /\ cleaned' = cleanGeneratedCode(code)
    /\ sanPc' = "cleaned"
    /\ UNCHANGED <<code, recleaned, promptVars, serverVars, clientVars>>

CleanAgain ==
    /\ sanPc = "cleaned"
    /\ recleaned' = cleanGeneratedCode(cleaned)
    /\ sanPc' = "recleaned"
    /\ UNCHANGED <<code, cleaned, promptVars, serverVars, clientVars>>

CleanNext == Clean \/ CleanAgain

SpecClean == CleanInit /\ [][CleanNext]_vars

(***************************************************************************)
(* createCodePrompt on every modelled (transcript, language) pair          *)
(***************************************************************************)
PromptInit ==
    /\ promptPc = "input"
    /\ transcript \in PromptTranscripts
    /\ language \in PromptLanguages
    /\ codePrompt = <<>>
    /\ SanitizerIdle /\ ServerInit /\ ClientInit

BuildPrompt ==
    /\ promptPc = "input"
    /\ codePrompt' = createCodePrompt(transcript, language)
    /\ promptPc' = "built"
    /\ UNCHANGED <<transcript, language, sanVars, serverVars, clientVars>>

PromptNext == BuildPrompt

SpecPrompt == PromptInit /\ [][PromptNext]_vars

(***************************************************************************)
(* The function serving requests                                           *)
(***************************************************************************)
Init == ServerInit /\ SanitizerIdle /\ PromptIdle /\ ClientInit

Next ==
    \/ \E m \in Methods, a \in AudioValues, l \in LanguageValues : Receive(m, a, l)
    \/ \E r \in RunIds, v \in SpeechResponses : SpeechResolves(r, v)
    \/ \E r \in RunIds, e \in ServiceErrors : SpeechRejects(r, e)
    \/ \E r \in RunIds : AfterRecognize(r)
    \/ \E r \in RunIds, v \in GenResponses : GenResolves(r, v)
    \/ \E r \in RunIds, e \in ServiceErrors : GenRejects(r, e)
    \/ \E r \in RunIds : AfterGenerate(r)

Spec == Init /\ [][Next]_vars

\* the event loop runs a continuation once its promise has settled; nothing
\* obliges a service to answer
LiveSpec ==
    /\ Spec
    /\ \A r \in RunIds : WF_vars(AfterRecognize(r)) /\ WF_vars(AfterGenerate(r))

(***************************************************************************)
(* The client                                                              *)
(***************************************************************************)
ClientNext ==
    \/ ClickStart
    \/ MediaGranted
    \/ MediaDenied
    \/ ClickStop
    \/ \E id \in RecorderIds : OnStop(id)
    \/ \E id \in RecorderIds : Base64Done(id)
    \/ \E id \in RecorderIds : Base64Fails(id)
    \/ \E id \in RecorderIds, b \in ResultBodies : FetchResolves(id, b)
    \/ \E id \in RecorderIds : FetchRejects(id)

InitClient == ClientInit /\ SanitizerIdle /\ PromptIdle /\ ServerInit

SpecClient == InitClient /\ [][ClientNext]_vars

\* a FileReader always ends its read with loadend, and the request of a run
\* is taken to be answered or to fail
LiveSpecClient ==
    /\ SpecClient
    /\ \A id \in RecorderIds :
          /\ WF_vars(Base64Done(id) \/ Base64Fails(id))
          /\ WF_vars((\E b \in ResultBodies : FetchResolves(id, b)) \/ FetchRejects(id))

(***************************************************************************)
(* Properties of cleanGeneratedCode  (SpecClean)                           *)
(***************************************************************************)
\* the input after fence removal and trimming, where the prefix loop starts
Defenced == trim(RemoveCodeBlocks(code))

\* C1 (as stated): cleanGeneratedCode is idempotent; cleaning the cleaned
\* text again returns it unchanged.
C1_Idempotent == sanPc = "recleaned" => recleaned = cleaned

\* C1 (amended): a second cleaning returns the cleaned text unchanged unless
\* that text again begins with a known preface phrase; then it removes that
\* one phrase, trims, and changes nothing else.
C1_IdempotentUpToPreface ==
    sanPc = "recleaned" =>
        /\ ~StartsWithPreface(cleaned) => recleaned = cleaned
        /\ StartsWithPreface(cleaned) =>
             \E k \in 1..Len(unwantedPrefixes) :
                /\ BeginsWithPhrase(cleaned, k)
                /\ recleaned = trim(substring(cleaned, Len(unwantedPrefixes[k])))

\* a fenced, padded output is cleaned and the second cleaning keeps it
C1_Witness ==
    /\ sanPc = "recleaned"
    /\ HasFence(code)
    /\ cleaned # code
    /\ cleaned # <<>>
    /\ recleaned = cleaned

\* C2 (as stated): the cleaned text never begins, in any letter case, with a
\* known preface phrase.
C2_NoLeadingPreface == sanPc = "cleaned" => ~StartsWithPreface(cleaned)

\* C2 (amended): the cleaned text begins with a known preface phrase only
\* when the de-fenced, trimmed output began with two phrases in a row: the
\* one removed and, after trimming, another one. A single leading phrase, in
\* any letter case, is always removed.
C2_OnePrefaceRemoved ==
    sanPc = "cleaned" /\ StartsWithPreface(cleaned) =>
        \E k \in 1..Len(unwantedPrefixes) :
            /\ BeginsWithPhrase(Defenced, k)
            /\ StartsWithPreface(trim(substring(Defenced, Len(unwantedPrefixes[k]))))

\* an upper-case preface followed by code: the preface is gone
C2_Witness ==
    /\ sanPc = "cleaned"
    /\ StartsWithPreface(Defenced)
    /\ ~BeginsWithPhrase(Defenced, 1)
    /\ cleaned # <<>>
    /\ ~StartsWithPreface(cleaned)

\* code is a fenced block: opening fence, tag, newline, body, newline,
\* closing fence, the body holding no fence of its own
IsFencedBlock(tag, body) ==
    /\ code = OpenFence(tag) \o body \o CloseFence
    /\ ~HasFence(body)

C4_GenericFallback ==
    promptPc = "built" => DirectiveOf(codePrompt) = OwnInstruction(language)

(***************************************************************************)
(* Properties of processVoice  (Spec, LiveSpec)                            *)
(***************************************************************************)
Arrived(r) == runs[r].pc # "none"

AllWhiteSpace(t) == \A i \in 1..Len(t) : t[i] \in WhiteSpace

\* C5: a POST request whose audio field is missing or empty is answered with
\* status 400, success false and 'No audio data provided', and neither
\* service is called for it.
C5_EmptyAudioRejected ==
    \A r \in RunIds :
        Arrived(r) /\ runs[r].req.method = "POST"
          /\ runs[r].req.audio \in {Undefined, Str("")} =>
            /\ runs[r].responses =
                 << [status |-> 400, kind |-> "json",
                     body |-> [success |-> FALSE, error |-> "No audio data provided"]] >>
            /\ runs[r].speechCalls = 0
            /\ runs[r].genCalls = 0

\* a POST with an empty audio string has been answered
C5_Witness ==
    \E r \in RunIds :
        /\ runs[r].req.method = "POST"
        /\ runs[r].req.audio = Str("")
        /\ runs[r].pc = "done"
        /\ Len(runs[r].responses) = 1

\* the transcript the handler has obtained in run r is blank
BlankTranscript(r) ==
    /\ runs[r].speech.state = "resolved"
    /\ ~MapThrows(runs[r].speech.value)
    /\ AllWhiteSpace(Transcription(runs[r].speech.value))

\* C6: a run whose transcript is empty or whitespace ends with status 400 and
\* the no-speech message, which differs from the no-audio message, and never
\* calls the generation service; the generation service is called only once
\* a non-blank transcript has been obtained.
C6_NoSpeechRejected ==
    /\ NoSpeechMessage # NoAudioMessage
    /\ \A r \in RunIds :
        /\ BlankTranscript(r) => runs[r].genCalls = 0
        /\ BlankTranscript(r) /\ runs[r].pc = "done" =>
              runs[r].responses =
                 << [status |-> 400, kind |-> "json",
                     body |-> [success |-> FALSE, error |-> NoSpeechMessage]] >>
        /\ runs[r].genCalls > 0 =>
              /\ runs[r].speech.state = "resolved"
              /\ ~MapThrows(runs[r].speech.value)
              /\ ~AllWhiteSpace(Transcription(runs[r].speech.value))

\* a whitespace transcript (first alternative of the only result) was rejected
C6_Witness ==
    \E r \in RunIds :
        /\ runs[r].pc = "done"
        /\ BlankTranscript(r)
        /\ runs[r].speech.value # <<>>
        /\ runs[r].responses[1].status = 400

\* a call of run r to one of the two services has failed
ServiceFailed(r) ==
    runs[r].speech.state = "rejected" \/ runs[r].gen.state = "rejected"

FailureOf(r) ==
    IF runs[r].speech.state = "rejected" THEN runs[r].speech.error
    ELSE runs[r].gen.error

\* C7: a run in which the speech call or the generation call failed answers
\* with status 500, success false and the fixed message, carries no text of
\* the error, has the error in the log, and the function still accepts
\* requests.
C7_UpstreamFailure ==
    /\ \A r \in RunIds :
          ServiceFailed(r) /\ runs[r].pc = "done" =>
            /\ Len(runs[r].responses) = 1
            /\ runs[r].responses[1].status = 500
            /\ runs[r].responses[1].kind = "json"
            /\ runs[r].responses[1].body =
                 [success |-> FALSE,
                  error |-> "Failed to process voice input. Please try again."]
            /\ runs[r].responses[1].body.error \notin ServiceErrors
            /\ [run |-> r, error |-> FailureOf(r)] \in consoleErrors
    /\ arrived < MaxRuns =>
          ENABLED (\E m \in Methods, a \in AudioValues, l \in LanguageValues :
                      Receive(m, a, l))

\* one run failed at the generation service and a later request succeeded
C7_Witness ==
    \E r1, r2 \in RunIds :
        /\ r1 < r2
        /\ runs[r1].pc = "done"
        /\ runs[r1].gen.state = "rejected"
        /\ runs[r1].responses[1].status = 500
        /\ runs[r2].pc = "done"
        /\ runs[r2].responses[1].status = 200

Succeeded(r) ==
    /\ runs[r].pc = "done"
    /\ runs[r].responses # <<>>
    /\ runs[r].responses[Len(runs[r].responses)].status = 200

\* C8: a run sends at most one speech request and at most one generation
\* request; the generation request leaves only after the speech request has
\* been answered and carries a prompt built from that run's transcript; a
\* run that succeeded sent exactly one of each.
C8_SingleFlight ==
    \A r \in RunIds :
        /\ runs[r].speechCalls <= 1
        /\ runs[r].genCalls <= 1
        /\ runs[r].genCalls > 0 =>
              /\ runs[r].speechCalls = 1
              /\ runs[r].speech.state = "resolved"
              /\ runs[r].codePrompt[4] = Transcription(runs[r].speech.value)
        /\ Succeeded(r) => runs[r].speechCalls = 1 /\ runs[r].genCalls = 1

\* two runs in flight at once, one waiting for the generation service with
\* its own transcript in the prompt, the other with another transcript
C8_Witness ==
    \E r1, r2 \in RunIds :
        /\ runs[r1].pc = "awaitGen"
        /\ Succeeded(r2)
        /\ runs[r1].codePrompt[4] # runs[r2].codePrompt[4]

\* C9: every call to an external service is bounded by a timeout: a run that
\* waits for a service eventually ends with a response, also when the
\* service never answers.
C9_Timeout ==
    \A r \in RunIds :
        (runs[r].pc \in {"awaitSpeech", "awaitGen"}) ~> (runs[r].pc = "done")

(***************************************************************************)
(* Properties of the client  (SpecClient)                                  *)
(***************************************************************************)
\* C10: no recording is started or active while a backend request is
\* outstanding: isRecording and isProcessing are never both true, and no
\* MediaRecorder records while a processAudio run is in flight.
C10_NoRecordingWhileProcessing ==
    /\ ~(isRecording /\ isProcessing)
    /\ ~(\E a, b \in RecorderIds : recorders[a] = "recording" /\ InFlight(b))

\* C11: a success response has success true, the transcript obtained from
\* the speech service in the same run, the cleaned text of the first
\* candidate the generation service returned in the same run, and the
\* language value of the request, unchanged.
C11_SuccessPayload ==
    \A r \in RunIds :
        Succeeded(r) =>
            /\ runs[r].speech.state = "resolved"
            /\ runs[r].gen.state = "resolved"
            /\ runs[r].gen.value # <<>>
            /\ runs[r].responses[1].kind = "json"
            /\ runs[r].responses[1].body =
                 [success    |-> TRUE,
                  transcript |-> Transcription(runs[r].speech.value),
                  code       |-> cleanGeneratedCode(runs[r].gen.value[1]),
                  language   |-> runs[r].req.language]

\* two runs succeeded with different transcripts; one was given a fenced
\* text and answers with the bare code
C11_Witness ==
    \E r1, r2 \in RunIds :
        /\ Succeeded(r1) /\ Succeeded(r2)
        /\ runs[r1].responses[1].body.transcript # runs[r2].responses[1].body.transcript
        /\ runs[r1].gen.value[1] = FencedText
        /\ runs[r1].responses[1].body.code = <<"x">>
        /\ runs[r1].req.language = Str("python")

(***************************************************************************)
(* More properties of cleanGeneratedCode  (SpecClean)                      *)
(***************************************************************************)
\* the fence at i opens a line
LineOpening(s, i) == i = 1 \/ s[i - 1] = "\n"

\* the text with its fence delimiters taken out and nothing else: three
\* backticks, the tag behind them when they open a line, and the newline
\* that ends the delimiter
RECURSIVE DelimitersRemovedFrom(_, _)
DelimitersRemovedFrom(s, i) ==
    IF i > Len(s) THEN <<>>
    ELSE IF FenceAt(s, i)
         THEN IF LineOpening(s, i)
              THEN DelimitersRemovedFrom(s, OptNewlineEnd(s, WordRunEnd(s, i + 3)))
              ELSE DelimitersRemovedFrom(s, OptNewlineEnd(s, i + 3))
    ELSE <<s[i]>> \o DelimitersRemovedFrom(s, i + 1)

\* C12: the fence-removal stage deletes each triple-backtick delimiter, a
\* language tag only when it follows a line-opening triple-backtick, and
\* leaves every other character in place and in order.
C12_OnlyDelimitersRemoved ==
    sanPc = "cleaned" => RemoveCodeBlocks(code) = DelimitersRemovedFrom(code, 1)

\* C13: when the de-fenced, trimmed text begins, in any letter case, with a
\* known preface phrase, the result is that text without the phrase's
\* characters at the front, trimmed; one phrase is removed per call, and what
\* follows it is returned as it is.
C13_SinglePrefaceRemoval ==
    sanPc = "cleaned" =>
        \A k \in 1..Len(unwantedPrefixes) :
            BeginsWithPhrase(Defenced, k) =>
               /\ cleaned = trim(substring(Defenced, Len(unwantedPrefixes[k])))
               /\ Len(cleaned) <= Len(Defenced) - Len(unwantedPrefixes[k])

\* two prefaces in a row: the first is removed, the second is returned
C13_Witness ==
    /\ sanPc = "cleaned"
    /\ BeginsWithPhrase(Defenced, 1)
    /\ BeginsWithPhrase(cleaned, 2)
    /\ Len(cleaned) = Len(Defenced) - Len(unwantedPrefixes[1])

\* the text between the first and the last character that is not white space
Trimmed(s) ==
    LET solid == {i \in 1..Len(s) : s[i] \notin WhiteSpace} IN
    IF solid = {} THEN <<>>
    ELSE SubSeq(s, CHOOSE i \in solid : \A j \in solid : i <= j,
                   CHOOSE i \in solid : \A j \in solid : i >= j)

\* C14: an input without a triple backtick whose trimmed form does not begin
\* with a known preface phrase is returned with its leading and trailing
\* white space removed and nothing else changed; the empty string yields the
\* empty string.
C14_PlainTextTrimmed ==
    sanPc = "cleaned" =>
        /\ ~HasFence(code) /\ ~StartsWithPreface(Trimmed(code)) =>
              cleaned = Trimmed(code)
        /\ code = <<>> => cleaned = <<>>

\* padded plain text comes back without the padding
C14_Witness ==
    /\ sanPc = "cleaned"
    /\ ~HasFence(code)
    /\ code # <<>>
    /\ code[1] \in WhiteSpace
    /\ code[Len(code)] \in WhiteSpace
    /\ cleaned # <<>>
    /\ cleaned = Trimmed(code)

(***************************************************************************)
(* More properties of createCodePrompt  (SpecPrompt)                       *)
(***************************************************************************)
\* C15: the prompt consists, in this order, of the role-setting instruction
\* naming the language, the transcript as given between double quotes, the
\* five requirement items (style directive first, then comments,
\* production-ready, reasonable assumptions, code only) and the closing
\* directive naming the language again; building it changes no other state.
C15_PromptLayout ==
    promptPc = "built" =>
        /\ Len(codePrompt) = 13
        /\ codePrompt[1] = "You are a code generation assistant. Convert the following natural language request into "
        /\ codePrompt[2] = StringOf(language)
        /\ codePrompt[3] = " code.\n\nRequest: \""
        /\ codePrompt[4] = transcript
        /\ codePrompt[5] = "\"\n\nRequirements:\n- "
        /\ StringOf(language) \in DOMAIN languageInstructions =>
              codePrompt[6] = languageInstructions[StringOf(language)]
        /\ StringOf(language) \notin DOMAIN languageInstructions \cup DOMAIN ObjectPrototype =>
              codePrompt[6] = "Generate clean, well-structured code."
        /\ codePrompt[7] = "\n- Include helpful comments"
        /\ codePrompt[8] = "\n- Make the code production-ready"
        /\ codePrompt[9] = "\n- If the request is unclear, make reasonable assumptions"
        /\ codePrompt[10] = "\n- Only return the code, no explanations or markdown formatting"
        /\ codePrompt[11] = "\n\nGenerate the "
        /\ codePrompt[12] = StringOf(language)
        /\ codePrompt[13] = " code:"
        /\ SanitizerIdle /\ ServerInit /\ ClientInit

\* a prompt for python around a transcript that itself holds double quotes
C15_Witness ==
    /\ promptPc = "built"
    /\ language = Str("python")
    /\ transcript = <<"\"", "x", "\"">>
    /\ codePrompt[4] = transcript
    /\ codePrompt[12] = "python"

(***************************************************************************)
(* More properties of processVoice  (Spec)                                 *)
(***************************************************************************)
\* the first alternatives of the results that have one, in result order
RECURSIVE FirstAlternatives(_)
FirstAlternatives(results) ==
    IF results = <<>> THEN <<>>
    ELSE IF Head(results) = <<>> THEN FirstAlternatives(Tail(results))
    ELSE <<Head(results)[1]>> \o FirstAlternatives(Tail(results))

\* the speech response carries no recognized text
NoRecognizedText(results) ==
    \A i \in 1..Len(FirstAlternatives(results)) :
        AllWhiteSpace(FirstAlternatives(results)[i])

\* C16: the transcript is made of the first alternative of each result, in
\* result order, joined by newlines; a speech response without recognized
\* text, zero results and a result without alternatives included, ends in
\* the no-speech failure and not in the generic failure.
C16_TranscriptAssembly ==
    \A r \in RunIds :
        runs[r].pc = "done" /\ runs[r].speech.state = "resolved" =>
            /\ runs[r].genCalls > 0 =>
                  runs[r].codePrompt[4] = JoinLines(FirstAlternatives(runs[r].speech.value))
            /\ NoRecognizedText(runs[r].speech.value) =>
                  runs[r].responses =
                     << [status |-> 400, kind |-> "json",
                         body |-> [success |-> FALSE, error |-> NoSpeechMessage]] >>

\* the status the handler's path for run r answers with
PathStatus(r) ==
    IF runs[r].req.method = "OPTIONS" THEN 204
    ELSE IF runs[r].req.method # "POST" THEN 405
    ELSE IF runs[r].req.audio \in {Undefined, Str("")} THEN 400
    ELSE IF runs[r].speech.state = "rejected" THEN 500
    ELSE IF MapThrows(runs[r].speech.value) THEN 500
    ELSE IF AllWhiteSpace(Transcription(runs[r].speech.value)) THEN 400
    ELSE IF runs[r].gen.state = "rejected" \/ runs[r].gen.value = <<>> THEN 500
    ELSE 200

\* C17: a handler that has ended has sent exactly one response, with the
\* status of its path (OPTIONS 204, other non-POST 405, missing audio 400,
\* blank transcript 400, success 200, thrown error 500); a handler still
\* waiting has sent none; a non-POST request causes no service call.
C17_OneResponse ==
    \A r \in RunIds :
        /\ Len(runs[r].responses) <= 1
        /\ runs[r].pc = "done" =>
              /\ Len(runs[r].responses) = 1
              /\ runs[r].responses[1].status = PathStatus(r)
              /\ runs[r].responses[1].status = 200 => runs[r].responses[1].kind = "json"
        /\ runs[r].pc # "done" => runs[r].responses = <<>>
        /\ Arrived(r) /\ runs[r].req.method # "POST" =>
              /\ runs[r].pc = "done"
              /\ runs[r].speechCalls = 0
              /\ runs[r].genCalls = 0

\* an OPTIONS request and a GET request have each been answered once
C17_Witness ==
    \E r1, r2 \in RunIds :
        /\ runs[r1].req.method = "OPTIONS"
        /\ runs[r1].responses = << [status |-> 204, kind |-> "text", text |-> ""] >>
        /\ runs[r2].req.method = "GET"
        /\ Len(runs[r2].responses) = 1
        /\ runs[r2].responses[1].status = 405

(***************************************************************************)
(* More properties of the client  (SpecClient, LiveSpecClient)             *)
(***************************************************************************)
\* C18: every processAudio run that has set isProcessing to true reaches its
\* finally block and sets it back to false, whether the backend answers with
\* success or with a failure body, the fetch rejects, or the conversion of
\* the audio to base64 fails.
C18_ProcessingReleased ==
    \A id \in RecorderIds :
        (audioRuns[id].pc = "toBase64") ~> (audioRuns[id].pc = "done")

\* the step in which processAudio run id ends
Ends(id) == audioRuns[id].pc = "fetch" /\ audioRuns'[id].pc = "done"

\* C19: a processAudio run that ends with a failure body or with an
\* exception leaves the shown transcript and the generated code as they
\* were; a run that ends with a success body sets both to the values of
\* that body.
C19_ResultsOnlyOnSuccess ==
    [][\A id \in RecorderIds :
          Ends(id) =>
             IF audioRuns'[id].result.success
             THEN /\ shownTranscript' = audioRuns'[id].result.transcript
                  /\ generatedCode' = audioRuns'[id].result.code
             ELSE /\ shownTranscript' = shownTranscript
                  /\ generatedCode' = generatedCode]_vars

\* one run ended with a success body and the other with a failure body or
\* an exception, and the results of the successful one are shown
C19_Witness ==
    \E a, b \in RecorderIds :
        /\ audioRuns[a].pc = "done" /\ audioRuns[a].result.success
        /\ audioRuns[b].pc = "done" /\ ~audioRuns[b].result.success
        /\ shownTranscript = audioRuns[a].result.transcript
        /\ generatedCode = audioRuns[a].result.code

====
